---- MODULE Spec2Model ----
(***************************************************************************)
(* A model of gt-scraper.py (class TeknoParrotScraper): the retrying page  *)
(* fetcher, the game classifier, the entry-link extractor, the scorecard   *)
(* parser, the per-user / all-users collection loops and the CSV export.   *)
(*                                                                         *)
(* Texts are TLA+ strings; str methods (strip, upper, lower, split,        *)
(* startswith, isdigit, "in") are operators computed character by          *)
(* character.  A Python dict is a function whose DOMAIN is the set of keys *)
(* present.  A value that may be missing from the markup (what             *)
(* soup.find returns) is a sequence of length 0 or 1.                      *)
(***************************************************************************)
EXTENDS Integers, Sequences, FiniteSets, TLC

VARIABLES
    \* TeknoParrotScraper / scrape_all_users / scrape_user_entries
    user_ids, all_entries, idx, pc, entry_links, li, user_entries,
    \* fetch_page
    url, attempt, html, caller,
    \* observations of the run (requests issued, time slept, provenance)
    slept, found, fetched, origins,
    \* parse_scorecard called on its own
    page, scorecard,
    \* save_to_csv called on its own
    entries, flattened, csv_file

orchVars == <<user_ids, all_entries, idx, pc, entry_links, li, user_entries,
              url, attempt, html, caller,
              slept, found, fetched, origins>>
parseVars == <<page, scorecard>>
csvVars == <<entries, flattened, csv_file>>
vars == <<orchVars, parseVars, csvVars>>

(***************************************************************************)
(* Bounds of the model.                                                    *)
(***************************************************************************)
MaxUsers == 2
MaxLinks == 2
MaxRows == 2
MaxScores == 4
MaxCards == 2
MaxHoles == 3

(***************************************************************************)
(* str methods.                                                            *)
(***************************************************************************)
LowerAlpha == "abcdefghijklmnopqrstuvwxyz"
UpperAlpha == "ABCDEFGHIJKLMNOPQRSTUVWXYZ"
Digits == {"0", "1", "2", "3", "4", "5", "6", "7", "8", "9"}

CharAt(s, i) == SubSeq(s, i, i)

AlphaIndex(alpha, c) == CHOOSE i \in 1..Len(alpha) : CharAt(alpha, i) = c

LowerChars == {CharAt(LowerAlpha, i) : i \in 1..Len(LowerAlpha)}
UpperChars == {CharAt(UpperAlpha, i) : i \in 1..Len(UpperAlpha)}
ToUpper == [c \in LowerChars |-> CharAt(UpperAlpha, AlphaIndex(LowerAlpha, c))]
ToLower == [c \in UpperChars |-> CharAt(LowerAlpha, AlphaIndex(UpperAlpha, c))]

UpperChar(c) == IF c \in LowerChars THEN ToUpper[c] ELSE c

LowerChar(c) == IF c \in UpperChars THEN ToLower[c] ELSE c

RECURSIVE Upper(_)
Upper(s) == IF s = "" THEN "" ELSE UpperChar(Head(s)) \o Upper(Tail(s))

RECURSIVE Lower(_)
Lower(s) == IF s = "" THEN "" ELSE LowerChar(Head(s)) \o Lower(Tail(s))

RECURSIVE LStrip(_)
LStrip(s) == IF s # "" /\ Head(s) = " " THEN LStrip(Tail(s)) ELSE s

RECURSIVE RStrip(_)
RStrip(s) ==
    IF s # "" /\ CharAt(s, Len(s)) = " "
    THEN RStrip(SubSeq(s, 1, Len(s) - 1))
    ELSE s

Strip(s) == RStrip(LStrip(s))

StartsWith(s, p) == Len(s) >= Len(p) /\ SubSeq(s, 1, Len(p)) = p

\* t in s
Contains(s, t) ==
    \E i \in 1..(Len(s) - Len(t) + 1) : SubSeq(s, i, i + Len(t) - 1) = t

\* s.find(t) + 1, for t in s
IndexOf(s, t) ==
    CHOOSE i \in 1..(Len(s) - Len(t) + 1) :
        /\ SubSeq(s, i, i + Len(t) - 1) = t
        /\ \A j \in 1..(i - 1) : SubSeq(s, j, j + Len(t) - 1) # t

\* s.split(t)[0]
SplitFirst(s, t) ==
    IF Contains(s, t) THEN SubSeq(s, 1, IndexOf(s, t) - 1) ELSE s

\* s.split(t)[1], for t in s
SplitSecond(s, t) ==
    SplitFirst(SubSeq(s, IndexOf(s, t) + Len(t), Len(s)), t)

\* s.split()
RECURSIVE SplitWs(_, _, _)
SplitWs(s, cur, acc) ==
    IF s = "" THEN (IF cur = "" THEN acc ELSE Append(acc, cur))
    ELSE IF Head(s) = " "
         THEN SplitWs(Tail(s), "", IF cur = "" THEN acc ELSE Append(acc, cur))
         ELSE SplitWs(Tail(s), cur \o Head(s), acc)

Split(s) == SplitWs(s, "", <<>>)

\* s.isdigit()
IsDigit(s) == s # "" /\ \A i \in 1..Len(s) : CharAt(s, i) \in Digits

(***************************************************************************)
(* dict methods.                                                           *)
(***************************************************************************)
None == "<None>"

Get(d, k, dflt) == IF k \in DOMAIN d THEN d[k] ELSE dflt

Put(d, k, v) == (k :> v) @@ d

\* Python truthiness of a str-or-None value
Truthy(v) == v # None /\ v # ""

(***************************************************************************)
(* is_golden_tee_game                                                      *)
(***************************************************************************)
target_games == <<
    "golden tee unplugged 2018",
    "golden tee live 2018",
    "golden tee unplugged 2017",
    "golden tee live 2017",
    "golden tee unplugged 2016",
    "power putt live 2013",
    "golden tee live 2007",
    "golden tee live 2006" >>

IsGoldenTeeGame(game_name) ==
    IF ~Truthy(game_name) THEN FALSE
    ELSE LET game_lower == Lower(game_name)
         IN  \E k \in 1..Len(target_games) : Contains(game_lower, target_games[k])

(***************************************************************************)
(* parse_scorecard.  A detail page is the markup as BeautifulSoup sees it: *)
(*   h1      <<>> or <<text of the first h1>>                              *)
(*   profile <<>> or <<[btn |-> <<>> or <<text of button.btn-info>>]>>,    *)
(*           the first link to /ProfileViewer/Index/                       *)
(*   table   <<>> or <<[thead, tbody, trs]>>, the first                    *)
(*           table.scorecard-table: thead is <<>> or <<[tr |-> <<>> or     *)
(*           <<th texts>>]>>, tbody says whether the rows sit in a tbody,  *)
(*           trs are the body rows, each the texts of its td cells         *)
(*   cards   the div.card elements in document order, each                 *)
(*           [header |-> <<>> or <<text of h3.card-header>>,               *)
(*            iframe |-> <<>> or <<[src |-> <<>> or <<url>>]>>]            *)
(***************************************************************************)
Returned(d) == [status |-> "returned", data |-> d]
Raised(e) == [status |-> "raised", exc |-> e]
Pending == [status |-> "pending"]

\* rows = tbody.find_all('tr') if tbody else table.find_all('tr'): without a
\* tbody the header row is among them, and it has no td cells
TableRows(table) ==
    IF table.tbody THEN table.trs
    ELSE IF table.thead # <<>> /\ table.thead[1].tr # <<>>
         THEN << <<>> >> \o table.trs
         ELSE table.trs

\* one iteration of "for row in rows"
RowStep(st, cells) ==
    IF st.raised \/ cells = <<>> THEN st
    ELSE LET row_text == [i \in 1..Len(cells) |-> Strip(cells[i])]
             first_cell == Upper(row_text[1])
         IN  IF first_cell = "DISTANCE"
             THEN [st EXCEPT !.distances = Tail(row_text)]
             ELSE IF first_cell = "PAR"
             THEN [st EXCEPT !.pars = Tail(row_text)]
             ELSE IF StartsWith(first_cell, "PLAYER")
             THEN IF Len(Split(first_cell)) < 2
                  THEN [st EXCEPT !.raised = TRUE]
                  ELSE [st EXCEPT !.player_scores =
                            Append(@, [player |-> Split(first_cell)[2],
                                       scores |-> Tail(row_text)])]
             ELSE IF first_cell = "COURSE:"
             THEN IF Len(cells) > 1
                  THEN [st EXCEPT !.data = Put(@, "course", Strip(cells[2]))]
                  ELSE st
             ELSE IF first_cell = "DATE:"
             THEN IF Len(cells) > 1
                  THEN [st EXCEPT !.data = Put(@, "date", Strip(cells[2]))]
                  ELSE st
             ELSE IF first_cell = "CAPTURE ID:"
             THEN IF Len(cells) > 1
                  THEN [st EXCEPT !.data = Put(@, "capture_id", Strip(cells[2]))]
                  ELSE st
             ELSE st

RECURSIVE RowLoop(_, _)
RowLoop(st, rows) ==
    IF rows = <<>> THEN st ELSE RowLoop(RowStep(st, Head(rows)), Tail(rows))

\* lines 153-157
HeaderCells(table) ==
    IF table.thead # <<>> /\ table.thead[1].tr # <<>>
    THEN [i \in 1..Len(table.thead[1].tr[1]) |-> Strip(table.thead[1].tr[1][i])]
    ELSE <<>>

\* the offsets -2 and -1 taken without a length guard of their own, an
\* IndexError swallowed by the except clause
DeriveTotalsUnguarded(d, player_scores) ==
    IF player_scores = <<>> THEN d
    ELSE LET p1_scores == player_scores[1].scores
             n == Len(p1_scores)
             d1 == Put(d, "total_score", IF n > 3 THEN p1_scores[n - 2] ELSE None)
         IN  IF n = 0 THEN d
             ELSE IF n = 1 THEN d1
             ELSE Put(Put(d1, "score_vs_par", p1_scores[n - 1]), "gsp", p1_scores[n])

\* lines 163-170
DeriveTotals(d, player_scores) ==
    IF player_scores = <<>> THEN d
    ELSE LET p1_scores == player_scores[1].scores
             n == Len(p1_scores)
         IN  IF n > 0
             THEN Put(Put(Put(d,
                    "total_score", IF n > 3 THEN p1_scores[n - 2] ELSE None),
                    "score_vs_par", IF n > 2 THEN p1_scores[n - 1] ELSE None),
                    "gsp", IF n > 0 THEN p1_scores[n] ELSE None)
             ELSE d

\* lines 172-184
VideoFields(d, cards) ==
    IF cards = <<>> THEN d
    ELSE LET video_card == cards[1]
         IN  IF /\ video_card.header # <<>>
                /\ Contains(video_card.header[1], "Video")
                /\ video_card.iframe # <<>>
                /\ video_card.iframe[1].src # <<>>
                /\ video_card.iframe[1].src[1] # ""
             THEN LET youtube_url == video_card.iframe[1].src[1]
                  IN  IF Contains(youtube_url, "youtube.com/embed/")
                      THEN LET video_id ==
                                 SplitFirst(SplitSecond(youtube_url,
                                                        "youtube.com/embed/"), "?")
                           IN  Put(Put(d,
                                 "youtube_video",
                                 "https://www.youtube.com/watch?v=" \o video_id),
                                 "youtube_embed", youtube_url)
                      ELSE Put(d, "youtube_video", youtube_url)
             ELSE d

\* the update made only for the sequences that are not empty
WithSequencesIfAny(d, holes, distances, pars, player_scores) ==
    LET d1 == IF holes # <<>> THEN Put(d, "holes", holes) ELSE d
        d2 == IF distances # <<>> THEN Put(d1, "distances", distances) ELSE d1
        d3 == IF pars # <<>> THEN Put(d2, "pars", pars) ELSE d2
    IN  IF player_scores # <<>> THEN Put(d3, "players", player_scores) ELSE d3

\* lines 159-161
WithSequences(d, holes, distances, pars, player_scores) ==
    Put(Put(Put(Put(d, "holes", holes), "distances", distances), "pars", pars),
        "players", player_scores)

ParseScorecard(doc, entry_url) ==
    LET d0 == "entry_url" :> entry_url
        d1 == IF doc.h1 # <<>> THEN Put(d0, "game", Strip(doc.h1[1])) ELSE d0
        d2 == IF doc.profile # <<>> /\ doc.profile[1].btn # <<>>
              THEN Put(d1, "username", Strip(doc.profile[1].btn[1]))
              ELSE d1
    IN  IF doc.table = <<>> THEN Returned(d2)
        ELSE LET table == doc.table[1]
                 st == RowLoop([distances |-> <<>>, pars |-> <<>>,
                                player_scores |-> <<>>, data |-> d2,
                                raised |-> FALSE],
                               TableRows(table))
             IN  IF st.raised THEN Raised("IndexError")
                 ELSE LET d3 == WithSequences(st.data, HeaderCells(table),
                                              st.distances, st.pars,
                                              st.player_scores)
                          d4 == DeriveTotals(d3, st.player_scores)
                      IN  Returned(VideoFields(d4, doc.cards))

(***************************************************************************)
(* The detail pages parse_scorecard is called on.                          *)
(***************************************************************************)
SeqsUpTo(S, n) == UNION {[1..k -> S] : k \in 0..n}

Scores(n) == [i \in 1..n |-> ToString(i)]

PlayerRows == {<<"Player 1">> \o Scores(n) : n \in 0..MaxScores}

RowPool ==
    PlayerRows \cup
    { <<"PLAYER 2", "70", "71", "-2", "141">>,
      <<"Distance", "350", "410">>,
      <<" Par ", "4", "5">>,
      <<"Course:", " Pine Hills ">>,
      <<"Course:">>,
      <<"DATE:", "2024-05-01">>,
      <<"Capture ID:", "77">>,
      <<"Total", "9">>,
      <<"">>,
      <<>>,
      <<"Player">>,
      <<"Players", "3">> }

NoThead == <<>>
EmptyThead == <<[tr |-> <<>>]>>
Thead(ths) == <<[tr |-> <<ths>>]>>

CardPool ==
    { [header |-> <<"Video">>,
       iframe |-> <<[src |-> <<"https://www.youtube.com/embed/abc123?x=1">>]>>],
      [header |-> <<"Gameplay Video">>,
       iframe |-> <<[src |-> <<"https://example.com/clip.mp4">>]>>],
      [header |-> <<"Details">>, iframe |-> <<>>],
      [header |-> <<>>,
       iframe |-> <<[src |-> <<"https://www.youtube.com/embed/zzz">>]>>],
      [header |-> <<"Video">>, iframe |-> <<[src |-> <<>>]>>] }

TitlePool == {<<>>, <<"">>, <<" Golden Tee LIVE 2006 ">>}
ProfilePool == {<<>>, <<[btn |-> <<>>]>>, <<[btn |-> <<"ace">>]>>}

\* pages that vary the rows of the scorecard table
RowPages ==
    { [h1 |-> h, profile |-> <<[btn |-> <<"ace">>]>>,
       table |-> <<[thead |-> th, tbody |-> TRUE, trs |-> rows]>>,
       cards |-> <<>>] :
      h \in {<<>>, <<"Golden Tee Live 2006">>},
      th \in {NoThead, Thead(<<"Hole", "1", "2", "X">>)},
      rows \in SeqsUpTo(RowPool, MaxRows) }

\* pages that vary the cards, the title, the profile link and the table
CardPages ==
    { [h1 |-> h, profile |-> p, table |-> t, cards |-> cs] :
      h \in TitlePool, p \in ProfilePool,
      t \in { <<>>,
              <<[thead |-> EmptyThead, tbody |-> FALSE, trs |-> <<>>]>>,
              <<[thead |-> Thead(<<"Hole", "1">>), tbody |-> FALSE,
                 trs |-> << <<"Player 1", "3", "3", "-1", "9">> >>]>> },
      cs \in SeqsUpTo(CardPool, MaxCards) }

ParsePages == RowPages \cup CardPages

EntryUrl == "https://teknoparrot.com/en/Highscore/EntrySpecific/1"

(***************************************************************************)
(* extract_entry_links.  A leaderboard page is the sequence of its <a>     *)
(* elements in document order, each [href, text, parent] where parent is   *)
(* <<>> or <<the text nodes of the nearest tr/div ancestor>>.              *)
(***************************************************************************)
MatchesEntrySpecific(href) == Contains(Lower(href), "entryspecific")

NamesGame(t) ==
    Contains(Lower(t), "golden tee") \/ Contains(Lower(t), "power putt")

\* parent.find(text=re.compile('Golden Tee|Power Putt', re.I))
GameElem(texts) ==
    IF \E k \in 1..Len(texts) : NamesGame(texts[k])
    THEN <<texts[CHOOSE k \in 1..Len(texts) :
                   NamesGame(texts[k]) /\ \A j \in 1..(k - 1) : ~NamesGame(texts[j])]>>
    ELSE <<>>

EntryLink(a) ==
    [url |-> IF StartsWith(a.href, "http") THEN a.href
             ELSE "https://teknoparrot.com" \o a.href,
     game |-> IF a.parent # <<>> /\ GameElem(a.parent[1]) # <<>>
              THEN Strip(GameElem(a.parent[1])[1])
              ELSE Strip(a.text)]

RECURSIVE ExtractEntryLinks(_)
ExtractEntryLinks(anchors) ==
    IF anchors = <<>> THEN <<>>
    ELSE IF MatchesEntrySpecific(Head(anchors).href)
         THEN <<EntryLink(Head(anchors))>> \o ExtractEntryLinks(Tail(anchors))
         ELSE ExtractEntryLinks(Tail(anchors))

(***************************************************************************)
(* The site: the leaderboard pages and detail pages a run can be served.   *)
(***************************************************************************)
Ids == {"ann", "bob"}

\* entry links in the order the leaderboard page lists them
AnchorList ==
    << [href |-> "/en/Highscore/EntrySpecific/1", text |-> "View",
        parent |-> << <<"1.", " Golden Tee Live 2006 ", "View">> >>],
       [href |-> "https://teknoparrot.com/en/Highscore/entryspecific/2",
        text |-> " Mario Kart ", parent |-> <<>>],
       [href |-> "/en/Highscore/EntrySpecific/3", text |-> "",
        parent |-> << <<"Golden Tee Fore">> >>],
       [href |-> "/en/Highscore/EntrySpecific/4", text |-> "power putt live 2013",
        parent |-> <<>>] >>

\* a link of the page that is not an entry link
OtherAnchor ==
    [href |-> "/en/Highscore/UserSpecific?queryId=zed", text |-> "zed",
     parent |-> <<>>]

\* the pages a leaderboard URL is served: at most MaxLinks entry links, the
\* first of them after a link that is none
LeaderboardPool ==
    { SubSeq(<<OtherAnchor>> \o AnchorList, 1, n) : n \in 0..(MaxLinks + 1) }

TrackedPage ==
    [h1 |-> <<"Golden Tee LIVE 2007">>, profile |-> <<[btn |-> <<"ace">>]>>,
     table |-> <<[thead |-> Thead(<<"Hole", "1", "OUT", "2">>), tbody |-> TRUE,
                  trs |-> << <<"Capture ID:", "77">>,
                             <<"Player 1", "4", "9", "5", "9", "-2", "88">> >>]>>,
     cards |-> <<[header |-> <<"Video">>,
                  iframe |-> <<[src |-> <<"https://www.youtube.com/embed/abc123?x=1">>]>>]>>]

UntitledPage == [h1 |-> <<>>, profile |-> <<>>, table |-> <<>>, cards |-> <<>>]

EmptyTitlePage ==
    [h1 |-> <<"  ">>, profile |-> <<>>, table |-> <<>>, cards |-> <<>>]

UntrackedPage ==
    [h1 |-> <<"Mario Kart Arcade GP">>, profile |-> <<>>, table |-> <<>>,
     cards |-> <<>>]

PlayerTagPage ==
    [h1 |-> <<"Golden Tee Live 2006">>, profile |-> <<>>,
     table |-> <<[thead |-> NoThead, tbody |-> TRUE,
                  trs |-> << <<"Player", "4">> >>]>>,
     cards |-> <<>>]

\* the pages the site serves at a detail URL
DetailPages(u) ==
    IF Contains(u, "/1") THEN {UntitledPage, UntrackedPage, EmptyTitlePage}
    ELSE IF Contains(u, "/2") THEN {TrackedPage, UntitledPage, PlayerTagPage}
    ELSE IF Contains(u, "/3") THEN {TrackedPage, UntitledPage}
    ELSE {UntitledPage, UntrackedPage}

(***************************************************************************)
(* fetch_page: one action per iteration of its retry loop.                 *)
(***************************************************************************)
max_retries == 3

NoneHtml == [status |-> "None"]
EmptyHtml == [status |-> "empty"]
Text(doc) == [status |-> "text", body |-> doc]
\* "if not html": None and the empty string are both skipped
HtmlTruthy(h) == h.status = "text"

Bodies(kind, u) == IF kind = "base" THEN LeaderboardPool ELSE DetailPages(u)

ReturnTo(kind) == IF kind = "base" THEN "base_fetched" ELSE "entry_fetched"

\* lines 81-83: the request succeeds and its text is returned
FetchOk ==
    /\ pc = "fetch" /\ attempt < max_retries
    /\ \E h \in {Text(b) : b \in Bodies(caller, url)} \cup {EmptyHtml} : html' = h
    /\ slept' = 0
    /\ pc' = ReturnTo(caller)
    /\ attempt' = 0
    /\ UNCHANGED <<user_ids, all_entries, idx, entry_links, li, user_entries,
                   url, caller, found, fetched, origins>>
    /\ UNCHANGED <<parseVars, csvVars>>

\* lines 84-87: a RequestException with attempts left: sleep 2 and try again
FetchRetry ==
    /\ pc = "fetch" /\ attempt < max_retries
    /\ attempt < max_retries - 1
    /\ slept' = 2
    /\ attempt' = attempt + 1
    /\ UNCHANGED <<user_ids, all_entries, idx, pc, entry_links, li, user_entries,
                   url, html, caller, found, fetched, origins>>
    /\ UNCHANGED <<parseVars, csvVars>>

\* lines 84-89: a RequestException on the last attempt: return None
FetchGiveUp ==
    /\ pc = "fetch" /\ attempt < max_retries
    /\ ~(attempt < max_retries - 1)
    /\ slept' = 0
    /\ html' = NoneHtml
    /\ pc' = ReturnTo(caller)
    /\ attempt' = 0
    /\ UNCHANGED <<user_ids, all_entries, idx, entry_links, li, user_entries,
                   url, caller, found, fetched, origins>>
    /\ UNCHANGED <<parseVars, csvVars>>

\* the call self.fetch_page(u) from caller k
CallFetch(u, k) ==
    /\ url' = u
    /\ caller' = k
    /\ attempt' = 0
    /\ html' = NoneHtml
    /\ pc' = "fetch"

(***************************************************************************)
(* scrape_all_users and scrape_user_entries.                               *)
(***************************************************************************)
Now == "2024-05-01T12:00:00"

BaseUrl(user_id) ==
    "https://teknoparrot.com/en/Highscore/UserSpecific?queryId=" \o user_id

\* lines 244-246
ScrapeAllUsers ==
    /\ pc = "scrape_all_users"
    /\ IF user_ids = <<>> THEN pc' = "done" /\ idx' = 0
       ELSE pc' = "scrape_user" /\ idx' = 1
    /\ UNCHANGED <<user_ids, all_entries, entry_links, li, user_entries,
                   url, attempt, html, caller,
                   slept, found, fetched, origins>>
    /\ UNCHANGED <<parseVars, csvVars>>

\* lines 210-213
ScrapeUserEntries ==
    /\ pc = "scrape_user"
    /\ CallFetch(BaseUrl(user_ids[idx]), "base")
    /\ li' = 0
    /\ entry_links' = <<>>
    /\ user_entries' = <<>>
    /\ fetched' = fetched \cup {<<idx, 0>>}
    /\ UNCHANGED <<user_ids, all_entries, idx, slept, found, origins>>
    /\ UNCHANGED <<parseVars, csvVars>>

\* lines 214-220
AfterBaseFetch ==
    /\ pc = "base_fetched"
    /\ IF ~HtmlTruthy(html)
       THEN /\ pc' = "user_done"
            /\ UNCHANGED <<entry_links, li, found>>
       ELSE LET links == ExtractEntryLinks(html.body)
            IN  /\ entry_links' = links
                /\ found' = found \cup {<<idx, k>> : k \in 1..Len(links)}
                /\ IF links = <<>>
                   THEN pc' = "user_done" /\ li' = li
                   ELSE pc' = "entry_loop" /\ li' = 1
    /\ UNCHANGED <<user_ids, all_entries, idx, user_entries,
                   url, attempt, html, caller,
                   slept, fetched, origins>>
    /\ UNCHANGED <<parseVars, csvVars>>

\* line 222-223: the head of "for i, entry_info in enumerate(entry_links, 1)"
EntryLoop ==
    /\ pc = "entry_loop"
    /\ IF li > Len(entry_links)
       THEN /\ pc' = "user_done"
            /\ UNCHANGED <<url, attempt, html, caller, fetched>>
       ELSE /\ CallFetch(entry_links[li].url, "entry")
            /\ fetched' = fetched \cup {<<idx, li>>}
    /\ UNCHANGED <<user_ids, all_entries, idx, entry_links, li, user_entries,
                   slept, found, origins>>
    /\ UNCHANGED <<parseVars, csvVars>>

\* "break" in the place of "continue": the rest of the links are dropped
Break(i) == [pc |-> "user_done", li |-> i]

\* "continue": on to the next entry link
Continue(i) == [pc |-> "entry_loop", li |-> i + 1]

\* the fallback taken whether or not the page has a title
ResolveGameHintFirst(data, entry_info) == Put(data, "game", entry_info.game)

\* lines 227-228
ResolveGame(data, entry_info) ==
    IF ~Truthy(Get(data, "game", None))
    THEN Put(data, "game", entry_info.game)
    ELSE data

\* lines 233-234
Stamp(data, user_id) ==
    Put(Put(data, "scraped_at", Now), "query_user_id", user_id)

\* lines 224-239: the body of the loop after the fetch
AfterEntryFetch ==
    /\ pc = "entry_fetched"
    /\ IF ~HtmlTruthy(html)
       THEN /\ pc' = Continue(li).pc /\ li' = Continue(li).li
            /\ UNCHANGED <<user_entries, origins, slept>>
       ELSE LET parsed == ParseScorecard(html.body, entry_links[li].url)
            IN  IF parsed.status = "raised"
                THEN /\ pc' = "raised"
                     /\ UNCHANGED <<li, user_entries, origins, slept>>
                ELSE LET scorecard_data == ResolveGame(parsed.data, entry_links[li])
                     IN  IF ~IsGoldenTeeGame(Get(scorecard_data, "game", ""))
                         THEN /\ pc' = Continue(li).pc /\ li' = Continue(li).li
                              /\ UNCHANGED <<user_entries, origins, slept>>
                         ELSE /\ user_entries' =
                                   Append(user_entries,
                                          Stamp(scorecard_data, user_ids[idx]))
                              /\ origins' =
                                   Append(origins,
                                          [idx |-> idx, li |-> li,
                                           title |-> html.body.h1,
                                           hint |-> entry_links[li].game,
                                           url |-> entry_links[li].url])
                              /\ slept' = slept + 1
                              /\ pc' = "entry_loop" /\ li' = li + 1
    /\ UNCHANGED <<user_ids, all_entries, idx, entry_links,
                   url, attempt, html, caller, found, fetched>>
    /\ UNCHANGED <<parseVars, csvVars>>

\* the new records put in front of the accumulator
ExtendFront(acc, items) == items \o acc

\* line 248: all_entries.extend(...)
Extend(acc, items) == acc \o items

\* lines 248-250: extend the accumulator, pause, next identifier or return
UserDone ==
    /\ pc = "user_done"
    /\ all_entries' = Extend(all_entries, user_entries)
    /\ user_entries' = <<>>
    /\ entry_links' = <<>>
    /\ li' = 0
    /\ IF idx < Len(user_ids)
       THEN slept' = slept + 2 /\ idx' = idx + 1 /\ pc' = "scrape_user"
       ELSE slept' = slept /\ idx' = idx /\ pc' = "done"
    /\ UNCHANGED <<user_ids, url, attempt, html, caller,
                   found, fetched, origins>>
    /\ UNCHANGED <<parseVars, csvVars>>

OrchIdle ==
    /\ user_ids = <<>> /\ all_entries = <<>> /\ idx = 0 /\ pc = "idle"
    /\ entry_links = <<>> /\ li = 0 /\ user_entries = <<>>
    /\ url = "" /\ attempt = 0 /\ html = NoneHtml /\ caller = "base"
    /\ slept = 0
    /\ found = {} /\ fetched = {} /\ origins = <<>>

ParseIdle == page = <<>> /\ scorecard = Pending

CsvIdle == entries = <<>> /\ flattened = <<>> /\ csv_file = [status |-> "idle"]

\* __init__ with a list of identifiers, then the call of scrape_all_users
\* the identifier lists of a run; no page depends on the identifier it is
\* asked for, so the first identifier of a list is fixed
UserLists == {ids \in SeqsUpTo(Ids, MaxUsers) : ids = <<>> \/ ids[1] = "ann"}

Init ==
    /\ user_ids \in UserLists
    /\ all_entries = <<>> /\ idx = 0 /\ pc = "scrape_all_users"
    /\ entry_links = <<>> /\ li = 0 /\ user_entries = <<>>
    /\ url = "" /\ attempt = 0 /\ html = NoneHtml /\ caller = "base"
    /\ slept = 0
    /\ found = {<<k, 0>> : k \in 1..Len(user_ids)}
    /\ fetched = {} /\ origins = <<>>
    /\ ParseIdle /\ CsvIdle

Next ==
    \/ ScrapeAllUsers
    \/ ScrapeUserEntries
    \/ FetchOk
    \/ FetchRetry
    \/ FetchGiveUp
    \/ AfterBaseFetch
    \/ EntryLoop
    \/ AfterEntryFetch
    \/ UserDone

Spec == Init /\ [][Next]_vars

(***************************************************************************)
(* parse_scorecard on its own: called once on any page of ParsePages.      *)
(***************************************************************************)
InitParse ==
    /\ OrchIdle /\ CsvIdle
    /\ page \in ParsePages
    /\ scorecard = Pending

CallParseScorecard ==
    /\ scorecard = Pending
    /\ scorecard' = ParseScorecard(page, EntryUrl)
    /\ UNCHANGED <<page, orchVars, csvVars>>

NextParse == CallParseScorecard

SpecParse == InitParse /\ [][NextParse]_vars

(***************************************************************************)
(* save_to_csv                                                             *)
(***************************************************************************)
\* int(s), for a string of decimal digits
RECURSIVE ParseNat(_)
ParseNat(s) ==
    IF s = "" THEN 0
    ELSE 10 * ParseNat(SubSeq(s, 1, Len(s) - 1))
         + (AlphaIndex("0123456789", CharAt(s, Len(s))) - 1)

HoleKey(n) == "hole_" \o ToString(n)

\* lines 256-263
FlatFields(entry) ==
    [k \in {"game", "username", "query_user_id", "course", "date", "capture_id",
            "total_score", "score_vs_par", "gsp", "youtube_video", "entry_url",
            "scraped_at"} |-> Get(entry, k, "")]

\* the loop left at the first score whose header cell is missing or not numeric
RECURSIVE HoleLoopStop(_, _, _, _)
HoleLoopStop(st, p1_scores, headers, i) ==
    IF i >= Len(p1_scores) THEN st
    ELSE IF (i + 1) < Len(headers) /\ IsDigit(headers[i + 2])
         THEN HoleLoopStop([hole_count |-> st.hole_count + 1,
                            flat |-> Put(st.flat, HoleKey(st.hole_count + 1),
                                         p1_scores[i + 1])],
                           p1_scores, headers, i + 1)
         ELSE st

\* lines 268-272, from 0-based index i on; st = [hole_count, flat]
RECURSIVE HoleLoop(_, _, _, _)
HoleLoop(st, p1_scores, headers, i) ==
    IF i >= Len(p1_scores) THEN st
    ELSE IF (i + 1) < Len(headers) /\ IsDigit(headers[i + 2])
         THEN HoleLoop([hole_count |-> st.hole_count + 1,
                        flat |-> Put(st.flat, HoleKey(st.hole_count + 1),
                                     p1_scores[i + 1])],
                       p1_scores, headers, i + 1)
         ELSE IF (i + 1) >= Len(headers) THEN st
              ELSE HoleLoop(st, p1_scores, headers, i + 1)

\* lines 256-273: one iteration of "for entry in entries"
FlatEntry(entry) ==
    IF Get(entry, "players", <<>>) # <<>>
    THEN HoleLoop([hole_count |-> 0, flat |-> FlatFields(entry)],
                  entry["players"][1].scores, Get(entry, "holes", <<>>), 0).flat
    ELSE FlatFields(entry)

standard_keys ==
    <<"game", "username", "query_user_id", "course", "date", "total_score",
      "score_vs_par", "gsp", "youtube_video", "entry_url">>

\* sorted(keys, key=lambda x: int(x.split('_')[1]))
RECURSIVE SortHoleKeys(_)
SortHoleKeys(keys) ==
    IF keys = {} THEN <<>>
    ELSE LET first == CHOOSE k \in keys :
                        \A j \in keys :
                            ParseNat(SplitSecond(k, "_")) <= ParseNat(SplitSecond(j, "_"))
         IN  <<first>> \o SortHoleKeys(keys \ {first})

\* lines 275-277
FieldNames(flat) ==
    LET all_keys == UNION {DOMAIN flat[r] : r \in 1..Len(flat)}
        hole_keys == SortHoleKeys({k \in all_keys : StartsWith(k, "hole_")})
    IN  standard_keys \o hole_keys

\* csv.DictWriter(..., extrasaction='ignore').writerow: a missing key is the
\* empty restval, and None is written as the empty string
CsvRow(rowdict, fieldnames) ==
    [c \in 1..Len(fieldnames) |->
        LET v == Get(rowdict, fieldnames[c], "")
        IN  IF v = None THEN "" ELSE v]

\* lines 252-283
SaveToCsv ==
    /\ csv_file = [status |-> "pending"]
    /\ IF entries = <<>>
       THEN /\ csv_file' = [status |-> "not written"]
            /\ flattened' = flattened
       ELSE LET flat == [r \in 1..Len(entries) |-> FlatEntry(entries[r])]
                fieldnames == FieldNames(flat)
            IN  /\ flattened' = flat
                /\ csv_file' = [status |-> "written",
                                header |-> fieldnames,
                                rows |-> [r \in 1..Len(flat) |->
                                            CsvRow(flat[r], fieldnames)]]
    /\ UNCHANGED <<entries, orchVars, parseVars>>

(***************************************************************************)
(* save_to_csv on its own: called once on records as scrape_user_entries   *)
(* makes them, from pages that vary the header row and the player rows.    *)
(***************************************************************************)
HoleLabels == {"1", "OUT", "1a"}

CsvPages ==
    { [h1 |-> <<"Golden Tee Live 2006">>, profile |-> <<>>,
       table |-> <<[thead |-> th, tbody |-> TRUE,
                    trs |-> << <<"Capture ID:", "77">> >> \o rows]>>,
       cards |-> <<>>] :
      th \in {NoThead} \cup
             {Thead(<<"Hole">> \o cells) : cells \in SeqsUpTo(HoleLabels, MaxHoles)},
      rows \in { <<>> } \cup
               { << <<"Player 1">> \o Scores(n), <<"Player 2", "8">> >> :
                 n \in 0..MaxScores } }
    \cup {UntitledPage}

Record(doc) ==
    Stamp(ResolveGame(ParseScorecard(doc, EntryUrl).data,
                      [url |-> EntryUrl, game |-> "Golden Tee Live 2006"]),
          "ann")

CsvInputs ==
    { <<>> }
    \cup { <<Record(doc)>> : doc \in CsvPages }
    \cup { <<Record(doc), Record(TrackedPage)>> : doc \in CsvPages }
    \cup { <<Record(UntitledPage), Record(doc)>> : doc \in CsvPages }

InitCsv ==
    /\ OrchIdle /\ ParseIdle
    /\ entries \in CsvInputs
    /\ flattened = <<>>
    /\ csv_file = [status |-> "pending"]

NextCsv == SaveToCsv

SpecCsv == InitCsv /\ [][NextCsv]_vars

(***************************************************************************)
(* Properties of scrape_all_users (specification Spec).                    *)
(***************************************************************************)
\* the records collected so far, in collection order
Collected == all_entries \o user_entries

AllowListed(game) ==
    /\ game # ""
    /\ \E k \in 1..Len(target_games) : Contains(Lower(game), target_games[k])

\* the title of the page a record was parsed from, else the hint of its link
ResolvedGame(o) ==
    IF o.title # <<>> /\ Strip(o.title[1]) # "" THEN Strip(o.title[1]) ELSE o.hint

\* the titles and the game hints of the site
SiteGames ==
    {Strip(p.h1[1]) : p \in {q \in {TrackedPage, UntitledPage, EmptyTitlePage,
                                     UntrackedPage, PlayerTagPage} : q.h1 # <<>>}}
    \cup {EntryLink(AnchorList[k]).game : k \in 1..Len(AnchorList)}

\* those of them that contain an allow-listed title
AllowListedGames == {game \in SiteGames : AllowListed(game)}

\* C1: every record of the accumulator has as its game the title parsed from
\* its page, or the game hint of its link when the page has no title, and
\* that game contains an allow-listed title; no other record is appended.
C1_RetainedOnlyIfAccepted ==
    /\ Len(origins) = Len(Collected)
    /\ \A k \in 1..Len(Collected) :
          /\ "game" \in DOMAIN Collected[k]
          /\ Collected[k]["game"] = ResolvedGame(origins[k])
          /\ Collected[k]["game"] \in AllowListedGames

\* a finished run that kept a record by its title and one by its link's hint,
\* and dropped or missed some link
C1_Witness ==
    /\ pc = "done"
    /\ \E k \in 1..Len(origins) : origins[k].title = <<>>
    /\ \E k \in 1..Len(origins) : origins[k].title # <<>>
    /\ Cardinality({w \in found : w[2] > 0}) > Len(all_entries)

Before(v, w) == v[1] < w[1] \/ (v[1] = w[1] /\ v[2] < w[2])

\* no leaderboard page and no entry link is passed over: whatever was fetched,
\* everything before it was fetched too, and an identifier or the run ends
\* only with all of its pages and links fetched
C2_NothingPassedOver ==
    /\ fetched \subseteq found
    /\ \A w \in fetched : \A v \in found : Before(v, w) => v \in fetched
    /\ pc = "user_done" => \A w \in found : w[1] <= idx => w \in fetched
    /\ pc = "done" => fetched = found

C2_Step ==
    \* None is returned only by the third failed attempt
    /\ (pc = "fetch" /\ pc' # "fetch" /\ html' = NoneHtml)
          => attempt = max_retries - 1
    \* an attempt that fails earlier is followed by the next attempt
    /\ (pc = "fetch" /\ pc' = "fetch")
          => attempt' = attempt + 1 /\ html' = NoneHtml
    \* a successful attempt is the last one, and fetch_page returns, never raises
    /\ (pc = "fetch" /\ html' # NoneHtml) => pc' = ReturnTo(caller)
    /\ pc = "fetch" => pc' \in {"fetch", ReturnTo(caller)}
    \* a failed detail fetch skips that link only
    /\ (pc = "entry_fetched" /\ ~HtmlTruthy(html))
          => /\ pc' = "entry_loop" /\ li' = li + 1 /\ idx' = idx
             /\ entry_links' = entry_links
             /\ user_entries' = user_entries /\ all_entries' = all_entries
    \* a failed leaderboard fetch skips that identifier only
    /\ (pc = "base_fetched" /\ ~HtmlTruthy(html))
          => pc' = "user_done" /\ idx' = idx /\ all_entries' = all_entries
    /\ pc = "user_done"
          => IF idx < Len(user_ids)
             THEN pc' = "scrape_user" /\ idx' = idx + 1
             ELSE pc' = "done"

\* C2: fetch_page issues at most 3 requests for a URL, returns at the first
\* that succeeds, and returns None (never raises) when the third fails; the
\* caller then goes on with the next link, or the next identifier, and no
\* later link or identifier is passed over.
C2_FetchFailureContained ==
    /\ [](pc = "fetch" => attempt \in 0..(max_retries - 1))
    /\ []C2_NothingPassedOver
    /\ [][C2_Step]_vars

\* all 3 attempts at a detail page have failed, with a later link and a later
\* identifier still to come
C2_Witness ==
    /\ pc = "entry_fetched" /\ html = NoneHtml
    /\ li < Len(entry_links) /\ idx < Len(user_ids)

\* C8: a detail page other than an identifier's first is requested only after
\* a pause since the previous request, a leaderboard page other than the
\* first only after the longer pause, and the run ends without that longer
\* pause.  (slept is the time slept since the last request.)
C8_PausedBetweenFetches ==
    /\ (pc = "fetch" /\ caller = "entry" /\ attempt = 0 /\ li > 1) => slept >= 1
    /\ (pc = "fetch" /\ caller = "base" /\ attempt = 0 /\ idx > 1) => slept >= 2
    /\ pc = "done" => slept < 2

\* C9: the accumulator is in identifier order and, within an identifier, in
\* link order; each record carries the identifier and the URL it was found
\* under; a finished run has fetched the leaderboard page of every position
\* of the input, a repeated identifier's too.
C9_InputOrder ==
    /\ Len(origins) = Len(Collected)
    /\ \A k \in 1..Len(Collected) :
          /\ Collected[k]["query_user_id"] = user_ids[origins[k].idx]
          /\ Collected[k]["entry_url"] = origins[k].url
    /\ \A j, k \in 1..Len(origins) :
          j < k => Before(<<origins[j].idx, origins[j].li>>,
                          <<origins[k].idx, origins[k].li>>)
    /\ pc = "done" => /\ user_entries = <<>>
                      /\ \A k \in 1..Len(user_ids) : <<k, 0>> \in fetched

\* a finished run over the same identifier twice, with two records from its
\* first occurrence and the first of them again from its second
C9_Witness ==
    /\ pc = "done" /\ Len(user_ids) = 2 /\ user_ids[1] = user_ids[2]
    /\ Len(all_entries) = 3
    /\ origins[1].idx = 1 /\ origins[2].idx = 1 /\ origins[3].idx = 2
    /\ all_entries[1]["entry_url"] = all_entries[3]["entry_url"]
    /\ all_entries[1]["entry_url"] # all_entries[2]["entry_url"]

(***************************************************************************)
(* Properties of parse_scorecard (specification SpecParse).                *)
(***************************************************************************)
\* the row-type tags of the rows parse_scorecard reads
RowTags ==
    IF page.table = <<>> THEN {}
    ELSE LET rows == TableRows(page.table[1])
         IN  {Upper(Strip(rows[r][1])) : r \in {q \in 1..Len(rows) : rows[q] # <<>>}}

HasHeaderRow ==
    /\ page.table # <<>>
    /\ page.table[1].thead # <<>>
    /\ page.table[1].thead[1].tr # <<>>

SequenceKeys == {"holes", "distances", "pars", "players"}

\* C3: parse_scorecard returns a record for every page, whatever the tags and
\* cell counts of the rows of its scorecard table.
C3_ParseAlwaysReturns == scorecard.status \in {"pending", "returned"}

\* C4 as stated: every returned record has holes, distances, pars and
\* players, empty for a page with no scorecard table, which has no other
\* field than entry_url, game and username.
C4_SequencesAlwaysPresent ==
    scorecard.status = "returned" =>
        /\ SequenceKeys \subseteq DOMAIN scorecard.data
        /\ page.table = <<>> =>
              /\ \A k \in SequenceKeys : scorecard.data[k] = <<>>
              /\ DOMAIN scorecard.data \subseteq
                    SequenceKeys \cup {"entry_url", "game", "username"}

\* C4 as amended: a record returned for a page with a scorecard table has
\* holes, distances, pars and players, each empty unless the table has the
\* header row or the row that fills it; a record returned for a page with no
\* scorecard table has none of the four, and nothing but entry_url and the
\* title and username that were found.
C4_SequencesPresentWithTable ==
    scorecard.status = "returned" =>
        IF page.table = <<>>
        THEN /\ "entry_url" \in DOMAIN scorecard.data
             /\ DOMAIN scorecard.data \subseteq {"entry_url", "game", "username"}
             /\ "game" \in DOMAIN scorecard.data <=> page.h1 # <<>>
             /\ "username" \in DOMAIN scorecard.data
                   <=> (page.profile # <<>> /\ page.profile[1].btn # <<>>)
        ELSE /\ SequenceKeys \subseteq DOMAIN scorecard.data
             /\ ~HasHeaderRow => scorecard.data["holes"] = <<>>
             /\ "DISTANCE" \notin RowTags => scorecard.data["distances"] = <<>>
             /\ "PAR" \notin RowTags => scorecard.data["pars"] = <<>>
             /\ (\A t \in RowTags : ~StartsWith(t, "PLAYER"))
                   => scorecard.data["players"] = <<>>

\* a page with a title and no scorecard table has been parsed
C4_Witness ==
    /\ scorecard.status = "returned"
    /\ page.table = <<>> /\ page.h1 # <<>>
    /\ "game" \in DOMAIN scorecard.data

\* the scores of the first player of a returned record
P1Scores == scorecard.data["players"][1].scores

HasP1 ==
    /\ scorecard.status = "returned"
    /\ "players" \in DOMAIN scorecard.data
    /\ scorecard.data["players"] # <<>>

\* C5 as stated: with n > 3 scores the three fields are the last three
\* scores; with n <= 3, total_score is unset and score_vs_par and gsp are
\* still the scores at offsets -2 and -1.
C5_UnguardedOffsets ==
    (HasP1 /\ Len(P1Scores) > 0) =>
        LET n == Len(P1Scores)
            d == scorecard.data
        IN  IF n > 3
            THEN /\ d["total_score"] = P1Scores[n - 2]
                 /\ d["score_vs_par"] = P1Scores[n - 1]
                 /\ d["gsp"] = P1Scores[n]
            ELSE /\ Get(d, "total_score", None) = None
                 /\ n >= 2 => Get(d, "score_vs_par", None) = P1Scores[n - 1]
                 /\ Get(d, "gsp", None) = P1Scores[n]

\* C5 as amended: with n > 3 scores the three fields are the last three
\* scores; with n <= 3, total_score is None, score_vs_par is the score at
\* offset -2 only when n = 3 and None otherwise, and gsp is the last score.
\* With no scores none of the three is set.
C5_GuardedOffsets ==
    HasP1 =>
        LET n == Len(P1Scores)
            d == scorecard.data
        IN  IF n = 0
            THEN {"total_score", "score_vs_par", "gsp"} \cap DOMAIN d = {}
            ELSE /\ {"total_score", "score_vs_par", "gsp"} \subseteq DOMAIN d
                 /\ d["total_score"] = IF n > 3 THEN P1Scores[n - 2] ELSE None
                 /\ d["score_vs_par"] = IF n > 2 THEN P1Scores[n - 1] ELSE None
                 /\ d["gsp"] = P1Scores[n]

\* a record whose first player has exactly two scores
C5_Witness ==
    /\ HasP1 /\ Len(P1Scores) = 2
    /\ scorecard.data["score_vs_par"] = None
    /\ scorecard.data["gsp"] = P1Scores[2]

HasVideoHeader(c) == c.header # <<>> /\ Contains(c.header[1], "Video")

HasFrameSource(c) ==
    c.iframe # <<>> /\ c.iframe[1].src # <<>> /\ c.iframe[1].src[1] # ""

\* C10: for a page with a scorecard table, if some card has a header with
\* "Video" and a frame with a source, youtube_video is set from the first
\* such card (the watch URL and youtube_embed for an embed URL, the source
\* itself otherwise), wherever the card is; with no such header, neither
\* video field is set.
C10_VideoFromAnyCard ==
    (scorecard.status = "returned" /\ page.table # <<>>) =>
        LET d == scorecard.data
            video == {k \in 1..Len(page.cards) :
                        HasVideoHeader(page.cards[k]) /\ HasFrameSource(page.cards[k])}
        IN  /\ video # {} =>
                  LET src == page.cards[CHOOSE k \in video :
                                          \A j \in video : k <= j].iframe[1].src[1]
                  IN  /\ "youtube_video" \in DOMAIN d
                      /\ IF Contains(src, "youtube.com/embed/")
                         THEN /\ "youtube_embed" \in DOMAIN d
                              /\ d["youtube_embed"] = src
                              /\ d["youtube_video"] =
                                    "https://www.youtube.com/watch?v="
                                    \o SplitFirst(SplitSecond(src, "youtube.com/embed/"), "?")
                         ELSE d["youtube_video"] = src
            /\ (\A k \in 1..Len(page.cards) : ~HasVideoHeader(page.cards[k]))
                  => {"youtube_video", "youtube_embed"} \cap DOMAIN d = {}

(***************************************************************************)
(* Properties of save_to_csv (specification SpecCsv).                      *)
(***************************************************************************)
HasPlayers(entry) == Get(entry, "players", <<>>) # <<>>

HoleKeysOf(flat) == {k \in DOMAIN flat : StartsWith(k, "hole_")}

\* the 1-based positions of the scores of player 0 whose header cell,
\* holes[i + 1] counting from 0, exists and is numeric
NumericPositions(entry) ==
    LET scores == entry["players"][1].scores
        holes == Get(entry, "holes", <<>>)
    IN  {i \in 1..Len(scores) : i + 1 <= Len(holes) /\ IsDigit(holes[i + 1])}

\* the number of leading scores whose header cell exists and is numeric
NumericPrefix(entry) ==
    LET scores == entry["players"][1].scores
        holes == Get(entry, "holes", <<>>)
    IN  Cardinality({i \in 1..Len(scores) :
                        \A j \in 1..i : j + 1 <= Len(holes) /\ IsDigit(holes[j + 1])})

\* C6 as stated: the hole columns of a record are its leading scores, up to
\* the first score whose header cell is missing or not numeric.
C6_StopsAtFirstNonNumeric ==
    csv_file.status = "written" =>
        \A r \in 1..Len(entries) :
            IF ~HasPlayers(entries[r]) THEN HoleKeysOf(flattened[r]) = {}
            ELSE LET m == NumericPrefix(entries[r])
                 IN  /\ HoleKeysOf(flattened[r]) = {HoleKey(c) : c \in 1..m}
                     /\ \A c \in 1..m :
                           flattened[r][HoleKey(c)] = entries[r]["players"][1].scores[c]

\* C6 as amended: the hole columns of a record, numbered from 1 without gaps,
\* are in order the scores of player 0 whose header cell holes[i+1] exists
\* and is numeric; a score whose header cell exists and is not numeric is
\* skipped and the scores after it are still looked at; only a missing
\* header cell ends the walk.
C6_SkipsNonNumeric ==
    csv_file.status = "written" =>
        \A r \in 1..Len(entries) :
            IF ~HasPlayers(entries[r]) THEN HoleKeysOf(flattened[r]) = {}
            ELSE LET P == NumericPositions(entries[r])
                 IN  /\ HoleKeysOf(flattened[r]) = {HoleKey(c) : c \in 1..Cardinality(P)}
                     /\ \A i \in P :
                           flattened[r][HoleKey(Cardinality({j \in P : j <= i}))]
                              = entries[r]["players"][1].scores[i]

\* a record written with a hole column for a score that follows a score
\* whose header cell is not numeric
C6_Witness ==
    /\ csv_file.status = "written"
    /\ \E r \in 1..Len(entries) :
          /\ HasPlayers(entries[r])
          /\ \E i \in NumericPositions(entries[r]) :
                /\ \E j \in 1..(i - 1) : j \notin NumericPositions(entries[r])
                /\ HoleKey(Cardinality({j \in NumericPositions(entries[r]) : j <= i}))
                      \in DOMAIN flattened[r]

LeadingColumns ==
    <<"game", "username", "query_user_id", "course", "date", "capture_id",
      "total_score", "score_vs_par", "gsp", "youtube_video", "entry_url",
      "scraped_at">>

\* C7: the file written has the twelve leading columns in order, then the
\* hole_N columns of all records sorted by N; the capture_id and scraped_at
\* of a record are in its row.
C7_LeadingColumns ==
    csv_file.status = "written" =>
        LET n == Len(LeadingColumns)
            holes == UNION {HoleKeysOf(flattened[r]) : r \in 1..Len(flattened)}
        IN  /\ Len(csv_file.header) = n + Cardinality(holes)
            /\ SubSeq(csv_file.header, 1, n) = LeadingColumns
            /\ \A c \in 1..Cardinality(holes) : csv_file.header[n + c] = HoleKey(c)
            /\ \A r \in 1..Len(entries) :
                  /\ csv_file.rows[r][6] = Get(entries[r], "capture_id", "")
                  /\ csv_file.rows[r][12] = Get(entries[r], "scraped_at", "")

====
